---- MODULE Spec2Model ----
(***************************************************************************)
(* Model of pdf_to_markdown: src/src/converter.py, src/src/main.py and     *)
(* src/src/models.py.                                                      *)
(*                                                                         *)
(* Coordinates are integers in hundredths of a PDF unit; a coordinate      *)
(* rounded to one decimal place is an integer in tenths.  Text is a TLA+   *)
(* string.  The PDF library's calls (find_tables, outside_bbox,            *)
(* extract_text_lines, Table.extract, ...) are inputs: what they return    *)
(* and whether they raise is chosen from small sets.                       *)
(***************************************************************************)
EXTENDS Integers, Sequences, FiniteSets, TLC

VARIABLES
    dd_pc,      \* deduplication run: "idle", "input", "once", "twice"
    dd_chars,   \* page.chars of the input page
    dd_once,    \* deduplicate_page(page)
    dd_twice    \* deduplicate_page(deduplicate_page(page))

ddVars == <<dd_pc, dd_chars, dd_once, dd_twice>>

VARIABLES
    tb_pc,      \* table rendering run: "idle", "input", "rendered"
    tb_rows,    \* what table.extract() returns: rows of cells
    tb_md       \* convert_table_to_markdown(table)

tbVars == <<tb_pc, tb_rows, tb_md>>

VARIABLES
    ec_pc,        \* extract_contents run: "idle", "input", "returned", "raised"
    ec_lines,     \* the text lines of the whole deduplicated page, in the
                  \* order extract_text_lines yields them
    ec_tables,    \* the tables find_tables detects on the page, in its order
    ec_fail,      \* which library calls raised during the run
    ec_extracted, \* the lines extract_text_lines returned to the run
    ec_contents   \* the list extract_contents returns

ecVars == <<ec_pc, ec_lines, ec_tables, ec_fail, ec_extracted, ec_contents>>

VARIABLES
    mn_pc,       \* main: "idle", "start", "converting", "saving", "exit"
    mn_args,     \* the parsed command line and whether pdf_path exists
    mn_exit,     \* main's return value, -1 while it runs
    mn_diag,     \* the diagnostic main printed to stderr, or "none"
    mn_called,   \* which of convert_pdf and save_result main has called
    cp_pages,    \* len(pdf.pages) of the opened document
    cp_handle,   \* the pdfplumber document: "none", "open", "closed"
    cp_closes,   \* how many times the document was closed
    cp_started,  \* how many loop iterations of convert_pdf have begun
    cp_result,   \* result.pages
    cp_confined, \* the kinds of failure caught so far inside convert_pdf
    cp_fatal,    \* the kind of failure that left convert_pdf, or "none"
    cp_outcome,  \* convert_pdf: "none", "returned", "raised"
    sv_outcome,  \* save_result: "none", "returned", "raised"
    fs_images,   \* the image files saved
    fs_markdown  \* the Markdown files written by save_result

mnVars == <<mn_pc, mn_args, mn_exit, mn_diag, mn_called, cp_pages, cp_handle,
            cp_closes, cp_started, cp_result, cp_confined, cp_fatal, cp_outcome,
            sv_outcome, fs_images, fs_markdown>>

vars == <<ddVars, tbVars, ecVars, mnVars>>

(***************************************************************************)
(* Bounds and input domains                                                *)
(***************************************************************************)
MaxChars == 3

X0Values == {4, 5, 14}
TopValues == {0, 25}
TextValues == {"a", "b"}

Glyphs == [x0 : X0Values, top : TopValues, text : TextValues]

SeqsUpTo(S, n) == UNION {[1..k -> S] : k \in 0..n}

(***************************************************************************)
(* round(v, 1) on a float holding h/100, as tenths.  Away from a tie the   *)
(* nearest tenth; at a decimal tie the double nearest to h/100 decides:    *)
(* 0.05 is stored above the tie, 0.15 and 0.35 below it, 0.25 is exact and *)
(* goes to the even tenth.                                                 *)
(***************************************************************************)
round1(h) ==
    LET q == h \div 10
        r == h % 10
    IN  IF r < 5 THEN q
        ELSE IF r > 5 THEN q + 1
        ELSE IF h = 5 THEN 1
        ELSE IF h % 100 \in {25, 75} THEN (IF q % 2 = 0 THEN q ELSE q + 1)
        ELSE q

(***************************************************************************)
(* deduplicate_page                                                        *)
(***************************************************************************)
GlyphKeyRaw(char) == <<char.x0, char.top, char.text>>

\* converter.py:43-47
GlyphKey(char) == <<round1(char.x0), round1(char.top), char.text>>

\* converter.py:38-50: the loop over enumerate(page.chars)
RECURSIVE DedupLoop(_, _, _, _)
DedupLoop(chars, i, seen_positions, indices_to_keep) ==
    IF i > Len(chars) THEN indices_to_keep
    ELSE LET key == GlyphKey(chars[i])
         IN  IF key \notin seen_positions
             THEN DedupLoop(chars, i + 1, seen_positions \cup {key},
                            indices_to_keep \cup {i})
             ELSE DedupLoop(chars, i + 1, seen_positions, indices_to_keep)

\* page.filter(keep_object): the chars whose index is in indices_to_keep,
\* in page order
RECURSIVE FilterChars(_, _, _)
FilterChars(chars, i, indices_to_keep) ==
    IF i > Len(chars) THEN <<>>
    ELSE (IF i \in indices_to_keep THEN <<chars[i]>> ELSE <<>>)
         \o FilterChars(chars, i + 1, indices_to_keep)

\* del chars[i] for each duplicate index in ascending order, the list
\* shifting under the later indices
RECURSIVE DeleteShifting(_, _, _)
DeleteShifting(chars, i, drop) ==
    IF i > Len(chars) THEN chars
    ELSE IF i \in drop /\ i <= Len(chars)
         THEN DeleteShifting(SubSeq(chars, 1, i - 1) \o SubSeq(chars, i + 1, Len(chars)),
                             i + 1, drop)
         ELSE DeleteShifting(chars, i + 1, drop)

deduplicate_page_shifting(chars) ==
    LET keep == DedupLoop(chars, 1, {}, {})
    IN  IF chars = <<>> THEN [chars |-> chars, filtered |-> FALSE, kept |-> {}]
        ELSE IF Cardinality(keep) < Len(chars)
        THEN [chars |-> DeleteShifting(chars, 1, (1..Len(chars)) \ keep),
              filtered |-> TRUE, kept |-> keep]
        ELSE [chars |-> chars, filtered |-> FALSE, kept |-> keep]

\* converter.py:19-69.  The result is the page view's chars, whether the
\* view is a new filtered page (FALSE: the input page itself is returned),
\* and the indices kept.
deduplicate_page(chars) ==
    IF chars = <<>> THEN [chars |-> chars, filtered |-> FALSE, kept |-> {}]
    ELSE LET indices_to_keep == DedupLoop(chars, 1, {}, {})
         IN  IF Cardinality(indices_to_keep) < Len(chars)
             THEN [chars |-> FilterChars(chars, 1, indices_to_keep),
                   filtered |-> TRUE, kept |-> indices_to_keep]
             ELSE [chars |-> chars, filtered |-> FALSE, kept |-> indices_to_keep]

NoResult == [chars |-> <<>>, filtered |-> FALSE, kept |-> {}]

DedupIdle ==
    /\ dd_pc = "idle"
    /\ dd_chars = <<>>
    /\ dd_once = NoResult
    /\ dd_twice = NoResult

TableIdle ==
    /\ tb_pc = "idle"
    /\ tb_rows = <<>>
    /\ tb_md = ""

NoFailure == [dedup |-> FALSE, find_tables |-> FALSE, outside_bbox |-> {},
              text_lines |-> FALSE]

ExtractIdle ==
    /\ ec_pc = "idle"
    /\ ec_lines = <<>>
    /\ ec_tables = <<>>
    /\ ec_fail = NoFailure
    /\ ec_extracted = <<>>
    /\ ec_contents = <<>>

MainIdle ==
    /\ mn_pc = "idle"
    /\ mn_args = [pdf_path |-> "", exists |-> FALSE, name |-> <<>>,
                  single |-> FALSE, images |-> FALSE]
    /\ mn_exit = -1
    /\ mn_diag = "none"
    /\ mn_called = {}
    /\ cp_pages = 0
    /\ cp_handle = "none"
    /\ cp_closes = 0
    /\ cp_started = 0
    /\ cp_result = <<>>
    /\ cp_confined = {}
    /\ cp_fatal = "none"
    /\ cp_outcome = "none"
    /\ sv_outcome = "none"
    /\ fs_images = {}
    /\ fs_markdown = {}

DedupInit ==
    /\ TableIdle
    /\ ExtractIdle
    /\ MainIdle
    /\ dd_pc = "input"
    /\ dd_chars \in SeqsUpTo(Glyphs, MaxChars)
    /\ dd_once = NoResult
    /\ dd_twice = NoResult

\* deduplicate_page(page)
DedupOnce ==
    /\ dd_pc = "input"
    /\ dd_once' = deduplicate_page(dd_chars)
    /\ dd_pc' = "once"
    /\ UNCHANGED <<dd_chars, dd_twice, tbVars, ecVars, mnVars>>

\* deduplicate_page applied to the page view DedupOnce returned
DedupTwice ==
    /\ dd_pc = "once"
    /\ dd_twice' = deduplicate_page(dd_once.chars)
    /\ dd_pc' = "twice"
    /\ UNCHANGED <<dd_chars, dd_once, tbVars, ecVars, mnVars>>

DedupNext == DedupOnce \/ DedupTwice

SpecDedup == DedupInit /\ [][DedupNext]_vars

(***************************************************************************)
(* Claims about deduplicate_page                                           *)
(***************************************************************************)
FirstOccurrences(chars) ==
    {i \in 1..Len(chars) :
        \A j \in 1..(i - 1) :
            ~ (/\ round1(chars[j].x0) = round1(chars[i].x0)
               /\ round1(chars[j].top) = round1(chars[i].top)
               /\ chars[j].text = chars[i].text)}

RECURSIVE Pick(_, _, _)
Pick(chars, i, idx) ==
    IF i > Len(chars) THEN <<>>
    ELSE (IF i \in idx THEN <<chars[i]>> ELSE <<>>) \o Pick(chars, i + 1, idx)

\* C2: deduplicate_page keeps exactly the first occurrence of every
\* (round(x0,1), round(top,1), text) key, in page order: one glyph per
\* distinct key, no glyph removed whose rounded position differs from that
\* of every earlier glyph with the same text, and the input page itself
\* returned when all keys are distinct.
C2_FirstOccurrencesKept ==
    dd_pc \in {"once", "twice"} =>
        LET first == FirstOccurrences(dd_chars)
            out   == dd_once.chars
        IN  /\ out = Pick(dd_chars, 1, first)
            /\ \A i, j \in 1..Len(out) :
                   (i # j) => <<round1(out[i].x0), round1(out[i].top), out[i].text>>
                              # <<round1(out[j].x0), round1(out[j].top), out[j].text>>
            /\ \A i \in 1..Len(dd_chars) :
                   (\A j \in 1..(i - 1) :
                        dd_chars[j].text = dd_chars[i].text =>
                            <<round1(dd_chars[j].x0), round1(dd_chars[j].top)>>
                            # <<round1(dd_chars[i].x0), round1(dd_chars[i].top)>>)
                   => i \in dd_once.kept
            /\ (Cardinality(first) = Len(dd_chars)) =>
                   (~ dd_once.filtered /\ out = dd_chars)

\* A page with a duplicate removed, and with a same-text glyph at another
\* rounded position kept.
C2_Witness ==
    /\ dd_pc = "once"
    /\ dd_once.filtered
    /\ Len(dd_once.chars) = 2
    /\ Len(dd_chars) = 3
    /\ dd_once.chars[1].text = dd_once.chars[2].text
    /\ dd_chars[1].x0 # dd_chars[2].x0
    /\ GlyphKey(dd_chars[1]) = GlyphKey(dd_chars[2])

\* C8: deduplicate_page is idempotent: applied to its own result it returns
\* the same glyph sequence.
C8_Idempotent ==
    dd_pc = "twice" => dd_twice.chars = dd_once.chars

\* The second application ran on a page from which the first one removed
\* two duplicates.
C8_Witness ==
    /\ dd_pc = "twice"
    /\ dd_once.filtered
    /\ Len(dd_chars) = 3
    /\ Len(dd_once.chars) = 1
    /\ ~ dd_twice.filtered

(***************************************************************************)
(* sanitize_cell and convert_table_to_markdown                             *)
(***************************************************************************)
MaxRows == 2
MaxCols == 2

\* A cell is None or a string.
NoneCell == [none |-> TRUE, s |-> ""]
StrCell(s) == [none |-> FALSE, s |-> s]

CellValues ==
    {NoneCell} \cup {StrCell(s) : s \in {"A", "B", "1", "2", "a|b", " x\n y "}}

TableValues ==
    {<<>>} \cup UNION {[1..r -> [1..c -> CellValues]] : r \in 1..MaxRows, c \in 1..MaxCols}

Whitespace == {" ", "\n", "\t", "\r"}

\* str.split() with no separator: the maximal runs of non-whitespace
RECURSIVE SplitLoop(_, _, _)
SplitLoop(s, word, words) ==
    IF s = ""
    THEN IF word = "" THEN words ELSE Append(words, word)
    ELSE IF Head(s) \in Whitespace
         THEN SplitLoop(Tail(s), "", IF word = "" THEN words ELSE Append(words, word))
         ELSE SplitLoop(Tail(s), word \o Head(s), words)

split(s) == SplitLoop(s, "", <<>>)

\* sep.join(parts)
RECURSIVE join(_, _)
join(sep, parts) ==
    IF parts = <<>> THEN ""
    ELSE IF Len(parts) = 1 THEN parts[1]
    ELSE parts[1] \o sep \o join(sep, Tail(parts))

\* s * n
RECURSIVE repeat(_, _)
repeat(s, n) == IF n <= 0 THEN "" ELSE s \o repeat(s, n - 1)

\* converter.py:123-135
sanitize_cell(cell) ==
    IF cell.none THEN "" ELSE join(" ", split(cell.s))

\* converter.py:160
header_separator(row) == repeat("|:--", Len(row)) \o ":|"

\* converter.py:154-161: the loop over enumerate(sanitized_table)
RECURSIVE TableLines(_, _)
TableLines(sanitized_table, i) ==
    IF i > Len(sanitized_table) THEN <<>>
    ELSE LET row    == sanitized_table[i]
             md_row == "| " \o join(" | ", row) \o " |"
         IN  (IF i = 1 THEN <<md_row, header_separator(row)>> ELSE <<md_row>>)
             \o TableLines(sanitized_table, i + 1)

\* converter.py:138-163, given what table.extract() returned
convert_table_to_markdown(unsanitized_table) ==
    IF unsanitized_table = <<>> THEN ""
    ELSE LET sanitized_table ==
                 [r \in 1..Len(unsanitized_table) |->
                     [c \in 1..Len(unsanitized_table[r]) |->
                         sanitize_cell(unsanitized_table[r][c])]]
         IN  join("\n", TableLines(sanitized_table, 1))

TableInit ==
    /\ DedupIdle
    /\ ExtractIdle
    /\ MainIdle
    /\ tb_pc = "input"
    /\ tb_rows \in TableValues
    /\ tb_md = ""

TableRender ==
    /\ tb_pc = "input"
    /\ tb_md' = convert_table_to_markdown(tb_rows)
    /\ tb_pc' = "rendered"
    /\ UNCHANGED <<tb_rows, ddVars, ecVars, mnVars>>

TableNext == TableRender

SpecTable == TableInit /\ [][TableNext]_vars

(***************************************************************************)
(* Claims about convert_table_to_markdown                                  *)
(***************************************************************************)
\* The lines of a string: its pieces between "\n"
RECURSIVE LinesLoop(_, _, _)
LinesLoop(s, line, lines) ==
    IF s = "" THEN Append(lines, line)
    ELSE IF Head(s) = "\n" THEN LinesLoop(Tail(s), "", Append(lines, line))
    ELSE LinesLoop(Tail(s), line \o Head(s), lines)

LinesOf(s) == LinesLoop(s, "", <<>>)

RECURSIVE CountPipes(_)
CountPipes(s) ==
    IF s = "" THEN 0
    ELSE (IF Head(s) = "|" THEN 1 ELSE 0) + CountPipes(Tail(s))

\* The columns of a rendered Markdown table row: one per stretch between
\* two pipes.
ColumnCount(line) == CountPipes(line) - 1

IsSeparatorLine(line) ==
    line # "" /\ \A k \in 1..Len(line) : SubSeq(line, k, k) \in {"|", ":", "-"}

\* R + 1 lines, the second the separator, the others the rows in order
RowCountAndSeparatorPlace ==
    (tb_pc = "rendered" /\ Len(tb_rows) >= 1) =>
        LET lines == LinesOf(tb_md)
        IN  /\ Len(lines) = Len(tb_rows) + 1
            /\ lines[2] = header_separator(tb_rows[1])
            /\ \A k \in 1..Len(lines) : (k # 2) =>
                   lines[k] = "| " \o join(" | ", [c \in 1..Len(tb_rows[1]) |->
                                   sanitize_cell(tb_rows[IF k = 1 THEN 1 ELSE k - 1][c])]) \o " |"

\* C4: a table extracting to R >= 1 rows renders as exactly R + 1 Markdown
\* rows, the separator row immediately after the first row and nowhere
\* else, and every rendered row has as many columns as the separator row.
C4_RowsAndColumns ==
    (tb_pc = "rendered" /\ Len(tb_rows) >= 1) =>
        LET lines == LinesOf(tb_md)
        IN  /\ Len(lines) = Len(tb_rows) + 1
            /\ IsSeparatorLine(lines[2])
            /\ \A k \in 1..Len(lines) : IsSeparatorLine(lines[k]) => k = 2
            /\ \A k \in 1..Len(lines) : ColumnCount(lines[k]) = ColumnCount(lines[2])

\* the same for the tables none of whose cells holds a pipe
PipeFreeRowsAndColumns ==
    (\A r \in 1..Len(tb_rows) : \A c \in 1..Len(tb_rows[r]) :
         CountPipes(tb_rows[r][c].s) = 0) => C4_RowsAndColumns

ExampleTable == <<<<StrCell("A"), StrCell("B")>>, <<StrCell("1"), StrCell("2")>>>>

\* C5: the table [["A","B"],["1","2"]] renders as "| A | B |", "|:--:|:--:|",
\* "| 1 | 2 |" joined by newlines, and the separator row of a header of n
\* columns is "|:--:" n times followed by "|".
C5_CentredSeparator ==
    (tb_pc = "rendered" /\ Len(tb_rows) >= 1) =>
        /\ (tb_rows = ExampleTable => tb_md = "| A | B |\n|:--:|:--:|\n| 1 | 2 |")
        /\ LinesOf(tb_md)[2] = repeat("|:--:", Len(tb_rows[1])) \o "|"

(***************************************************************************)
(* extract_contents                                                        *)
(***************************************************************************)
MaxLines == 2
MaxTables == 2

\* A text line: its vertical offset and its text.
LineValues == [top : {10, 50}, text : {"Hello", "World"}]

\* A detected table: its bounding box's top and bottom edge.  The k-th
\* table of the page is the Table object k.
BboxValues == [top : {10, 30}, bottom : {40, 60}]

\* A line lies in a bounding box when its top does.
InBbox(line, bbox) == bbox.top <= line.top /\ line.top < bbox.bottom

RECURSIVE SubtractLoopBreak(_, _, _, _, _)
SubtractLoopBreak(lines, non_table_content, tables, k, failing) ==
    IF k > Len(tables) \/ k \in failing THEN non_table_content
    ELSE SubtractLoopBreak(lines,
                           {i \in non_table_content : ~ InBbox(lines[i], tables[k])},
                           tables, k + 1, failing)

\* the loop leaving at the first table whose subtraction raises
SubtractTablesBreak(lines, tables, k, failing) ==
    SubtractLoopBreak(lines, 1..Len(lines), tables, k, failing)

RECURSIVE SubtractLoop(_, _, _, _, _)
SubtractLoop(lines, non_table_content, tables, k, failing) ==
    IF k > Len(tables) THEN non_table_content
    ELSE IF k \in failing
         THEN SubtractLoop(lines, non_table_content, tables, k + 1, failing)
         ELSE SubtractLoop(lines,
                           {i \in non_table_content : ~ InBbox(lines[i], tables[k])},
                           tables, k + 1, failing)

\* converter.py:97-102: the region left after the loop over tables, as the
\* set of the page's lines still in it.  outside_bbox raises for the
\* tables in failing, and the loop goes on with the next table.
SubtractTables(lines, tables, k, failing) ==
    SubtractLoop(lines, 1..Len(lines), tables, k, failing)

\* non_table_content.extract_text_lines(): the page's lines that lie in
\* the region, in the page's line order
RECURSIVE LinesIn(_, _, _)
LinesIn(lines, i, region) ==
    IF i > Len(lines) THEN <<>>
    ELSE (IF i \in region THEN <<lines[i]>> ELSE <<>>) \o LinesIn(lines, i + 1, region)

\* sorted(contents, key=itemgetter('top')): a stable sort, here by
\* insertion after the last block whose top is not larger
RECURSIVE InsertByTop(_, _)
InsertByTop(sorted, block) ==
    IF sorted = <<>> THEN <<block>>
    ELSE IF sorted[Len(sorted)].top <= block.top THEN Append(sorted, block)
    ELSE Append(InsertByTop(SubSeq(sorted, 1, Len(sorted) - 1), block), sorted[Len(sorted)])

RECURSIVE SortLoop(_, _, _)
SortLoop(contents, i, sorted) ==
    IF i > Len(contents) THEN sorted
    ELSE SortLoop(contents, i + 1, InsertByTop(sorted, contents[i]))

\* the same sort placing a block before the blocks of equal top
RECURSIVE InsertByTopUnstable(_, _)
InsertByTopUnstable(sorted, block) ==
    IF sorted = <<>> THEN <<block>>
    ELSE IF sorted[Len(sorted)].top < block.top THEN Append(sorted, block)
    ELSE Append(InsertByTopUnstable(SubSeq(sorted, 1, Len(sorted) - 1), block),
                sorted[Len(sorted)])

RECURSIVE SortLoopUnstable(_, _, _)
SortLoopUnstable(contents, i, sorted) ==
    IF i > Len(contents) THEN sorted
    ELSE SortLoopUnstable(contents, i + 1, InsertByTopUnstable(sorted, contents[i]))

sorted_by_top_unstable(contents) == SortLoopUnstable(contents, 1, <<>>)

\* converter.py:118
sorted_by_top(contents) == SortLoop(contents, 1, <<>>)

\* converter.py:104-106: one Text Block per extracted line
TextBlocks(extracted) ==
    [i \in 1..Len(extracted) |-> [top |-> extracted[i].top, text |-> extracted[i].text]]

\* converter.py:111-115: one Table Block per table, table.bbox[1] its top
TableBlocks(tables) ==
    [k \in 1..Len(tables) |-> [top |-> tables[k].top, table |-> k]]

ExtractInit ==
    /\ DedupIdle
    /\ TableIdle
    /\ MainIdle
    /\ ec_pc = "input"
    /\ ec_lines \in SeqsUpTo(LineValues, MaxLines)
    /\ ec_tables \in SeqsUpTo(BboxValues, MaxTables)
    /\ ec_fail = NoFailure
    /\ ec_extracted = <<>>
    /\ ec_contents = <<>>

\* converter.py:84: deduplicate_page is called outside every try, so what
\* it raises leaves extract_contents
ExtractRaises ==
    /\ ec_pc = "input"
    /\ ec_pc' = "raised"
    /\ ec_fail' = [ec_fail EXCEPT !.dedup = TRUE]
    /\ UNCHANGED <<ec_lines, ec_tables, ec_extracted, ec_contents, ddVars, tbVars, mnVars>>

\* converter.py:84-120 with deduplicate_page returning
ExtractContents ==
    /\ ec_pc = "input"
    /\ \E find_fails \in BOOLEAN, text_fails \in BOOLEAN :
       \E bbox_fails \in SUBSET (1..Len(ec_tables)) :
         LET tables    == IF find_fails THEN <<>> ELSE ec_tables
             failing   == IF find_fails THEN {} ELSE bbox_fails
             region    == SubtractTables(ec_lines, tables, 1, failing)
             extracted == IF text_fails THEN <<>> ELSE LinesIn(ec_lines, 1, region)
             contents  == TextBlocks(extracted) \o TableBlocks(tables)
         IN  /\ (find_fails => bbox_fails = {})
             /\ ec_fail' = [dedup |-> FALSE, find_tables |-> find_fails,
                            outside_bbox |-> failing, text_lines |-> text_fails]
             /\ ec_extracted' = extracted
             /\ ec_contents' = sorted_by_top(contents)
    /\ ec_pc' = "returned"
    /\ UNCHANGED <<ec_lines, ec_tables, ddVars, tbVars, mnVars>>

ExtractNext == ExtractRaises \/ ExtractContents

SpecExtract == ExtractInit /\ [][ExtractNext]_vars

(***************************************************************************)
(* Claims about extract_contents                                           *)
(***************************************************************************)
IsText(block) == "text" \in DOMAIN block
IsTable(block) == "table" \in DOMAIN block

\* The place a stable sort by top gives block k of blocks: after the blocks
\* of smaller top and after the earlier blocks of equal top.
StablePlace(blocks, k) ==
    1 + Cardinality({j \in 1..Len(blocks) :
                        \/ blocks[j].top < blocks[k].top
                        \/ (blocks[j].top = blocks[k].top /\ j < k)})

IsSortedByTop(blocks) ==
    \A a, b \in 1..Len(blocks) : (a < b) => blocks[a].top <= blocks[b].top

TextsOf(blocks) == SelectSeq(blocks, IsText)
TablesOf(blocks) == {blocks[a].table : a \in {b \in 1..Len(blocks) : IsTable(blocks[b])}}

MaxPages == 2
MaxImages == 1

\* The file names given on the command line, and the -n values; <<>> is
\* None.  The output directory is "out" throughout.
PathValues == {"in.pdf", "in.PDF", "in.txt", "in", ".pdf", "in.pdf.bak"}
NameValues == {<<>>, <<"">>, <<"merged">>}

\* name.rfind('.'), counted from 1; 0 when there is no dot
RECURSIVE rfind_dot(_, _)
rfind_dot(name, k) ==
    IF k = 0 THEN 0
    ELSE IF SubSeq(name, k, k) = "." THEN k
    ELSE rfind_dot(name, k - 1)

\* PurePath.suffix: from the last dot on, unless that dot starts or ends
\* the name
suffix(name) ==
    LET i == rfind_dot(name, Len(name))
    IN  IF 1 < i /\ i < Len(name) THEN SubSeq(name, i, Len(name)) ELSE ""

\* PurePath.stem
stem(name) ==
    LET i == rfind_dot(name, Len(name))
    IN  IF 1 < i /\ i < Len(name) THEN SubSeq(name, 1, i - 1) ELSE name

\* str.lower() on the letters the names use
LowerChar(c) ==
    CASE c = "P" -> "p" [] c = "D" -> "d" [] c = "F" -> "f" [] OTHER -> c

RECURSIVE lower(_)
lower(str) == IF str = "" THEN "" ELSE LowerChar(Head(str)) \o lower(Tail(str))

\* the comparison without lower()
is_pdf_case_sensitive(pdf_path) == suffix(pdf_path) = ".pdf"

\* main.py:103
is_pdf(pdf_path) == lower(suffix(pdf_path)) = ".pdf"

\* The failures a page can meet, in the order convert_pdf reaches the
\* calls: deduplicate_page (converter.py:84), find_tables (91),
\* outside_bbox (100), extract_text_lines (105), table.extract (147),
\* page.images (207), images_dir.mkdir (214), one image's crop, render
\* or save (220-249).
CallOrder == <<"dedup", "find_tables", "outside_bbox", "text_lines",
               "table_extract", "page_images", "images_mkdir", "image">>

FailureKinds == {CallOrder[k] : k \in 1..Len(CallOrder)}

\* The calls that sit inside a try whose except goes on: converter.py:90-94,
\* 99-102, 104-108, 217-254.
Caught(kind) == kind \in {"find_tables", "outside_bbox", "text_lines", "image"}

\* Whether the page's run reaches the call, given which earlier calls
\* raised: tables exist only when find_tables returned some, images are
\* looked at only with extract_images set, and the images directory and
\* the per-image loop only when the page has images.
Reached(kind, raises, has_tables, n_images, extract) ==
    LET tables == has_tables /\ "find_tables" \notin raises
    IN  CASE kind \in {"outside_bbox", "table_extract"} -> tables
          [] kind = "page_images" -> extract
          [] kind \in {"images_mkdir", "image"} -> extract /\ n_images > 0
          [] OTHER -> TRUE

\* One page's run through converter.py:287-306: the failures caught on the
\* way, and the first one that is not caught ("none": the page is appended).
RECURSIVE PageRun(_, _, _, _, _, _)
PageRun(k, raises, has_tables, n_images, extract, caught) ==
    IF k > Len(CallOrder) THEN [confined |-> caught, fatal |-> "none"]
    ELSE LET kind == CallOrder[k]
         IN  IF kind \in raises /\ Reached(kind, raises, has_tables, n_images, extract)
             THEN IF Caught(kind)
                  THEN PageRun(k + 1, raises, has_tables, n_images, extract,
                               caught \cup {kind})
                  ELSE [confined |-> caught, fatal |-> kind]
             ELSE PageRun(k + 1, raises, has_tables, n_images, extract, caught)

\* converter.py:243-244, 248
image_path(file_prefix, page_number, idx) ==
    "out/images/" \o file_prefix \o "_page" \o ToString(page_number)
                  \o "_img" \o ToString(idx) \o ".png"

\* converter.py:216-256: the paths of the images saved, in index order
RECURSIVE SavedImages(_, _, _, _, _)
SavedImages(file_prefix, page_number, idx, n_images, saved) ==
    IF idx > n_images THEN <<>>
    ELSE (IF idx \in saved THEN <<image_path(file_prefix, page_number, idx)>> ELSE <<>>)
         \o SavedImages(file_prefix, page_number, idx + 1, n_images, saved)

\* converter.py:334
output_prefix(file_prefix, source_filename) ==
    IF file_prefix = <<>> \/ file_prefix = <<"">> THEN source_filename
    ELSE file_prefix[1]

\* converter.py:339
single_path(prefix) == "out/" \o prefix \o ".md"

\* converter.py:348-349
page_path(prefix, page_number) ==
    "out/" \o prefix \o "_page_" \o ToString(page_number) \o ".md"

\* the document left open when an exception leaves the loop
leak_on_raise(handle) == handle

\* converter.py:285: leaving the with block by an exception closes the
\* document
close_on_raise(handle) == "closed"

\* converter.py:285: leaving the with block after the last page closes the
\* document
close_on_return(handle) == "closed"

Init ==
    /\ DedupIdle
    /\ TableIdle
    /\ ExtractIdle
    /\ mn_pc = "start"
    /\ mn_args \in [pdf_path : PathValues, exists : BOOLEAN, name : NameValues,
                     single : BOOLEAN, images : BOOLEAN]
    /\ mn_exit = -1
    /\ mn_diag = "none"
    /\ mn_called = {}
    /\ cp_pages = 0
    /\ cp_handle = "none"
    /\ cp_closes = 0
    /\ cp_started = 0
    /\ cp_result = <<>>
    /\ cp_confined = {}
    /\ cp_fatal = "none"
    /\ cp_outcome = "none"
    /\ sv_outcome = "none"
    /\ fs_images = {}
    /\ fs_markdown = {}

\* main.py:95-101
MainNotFound ==
    /\ mn_pc = "start"
    /\ ~ mn_args.exists
    /\ mn_pc' = "exit"
    /\ mn_exit' = 1
    /\ mn_diag' = "not_found"
    /\ UNCHANGED <<mn_args, mn_called, cp_pages, cp_handle, cp_closes, cp_started,
                   cp_result, cp_confined, cp_fatal, cp_outcome, sv_outcome,
                   fs_images, fs_markdown, ddVars, tbVars, ecVars>>

\* main.py:95-105
MainNotPdf ==
    /\ mn_pc = "start"
    /\ mn_args.exists
    /\ ~ is_pdf(mn_args.pdf_path)
    /\ mn_pc' = "exit"
    /\ mn_exit' = 1
    /\ mn_diag' = "not_pdf"
    /\ UNCHANGED <<mn_args, mn_called, cp_pages, cp_handle, cp_closes, cp_started,
                   cp_result, cp_confined, cp_fatal, cp_outcome, sv_outcome,
                   fs_images, fs_markdown, ddVars, tbVars, ecVars>>

\* main.py:95-116 and converter.py:274-285: the checks pass, convert_pdf is
\* called and opens the document
ConvertOpen ==
    /\ mn_pc = "start"
    /\ mn_args.exists
    /\ is_pdf(mn_args.pdf_path)
    /\ mn_pc' = "converting"
    /\ mn_called' = mn_called \cup {"convert_pdf"}
    /\ cp_handle' = "open"
    /\ cp_pages' \in 0..MaxPages
    /\ UNCHANGED <<mn_args, mn_exit, mn_diag, cp_closes, cp_started, cp_result,
                   cp_confined, cp_fatal, cp_outcome, sv_outcome, fs_images,
                   fs_markdown, ddVars, tbVars, ecVars>>

\* main.py:95-116, 130-132 and converter.py:274-285: output_dir.mkdir or
\* pdfplumber.open raises, no document is open, main returns 1
ConvertOpenRaises ==
    /\ mn_pc = "start"
    /\ mn_args.exists
    /\ is_pdf(mn_args.pdf_path)
    /\ mn_called' = mn_called \cup {"convert_pdf"}
    /\ cp_fatal' = "open"
    /\ cp_outcome' = "raised"
    /\ mn_pc' = "exit"
    /\ mn_exit' = 1
    /\ mn_diag' = "conversion"
    /\ UNCHANGED <<mn_args, cp_pages, cp_handle, cp_closes, cp_started, cp_result,
                   cp_confined, sv_outcome, fs_images, fs_markdown, ddVars, tbVars,
                   ecVars>>

\* The runs one page can take: whether it holds tables, how many images,
\* whether images are extracted, the calls that raise (each one reached),
\* and what PageRun makes of them.
PageRuns ==
    LET inputs == [has_tables : BOOLEAN, n_images : 0..MaxImages,
                   extract : BOOLEAN, raises : SUBSET FailureKinds]
        RunOf(x) == PageRun(1, x.raises, x.has_tables, x.n_images, x.extract, {})
    IN  {[n_images |-> x.n_images, extract |-> x.extract, raises |-> x.raises,
          confined |-> RunOf(x).confined, fatal |-> RunOf(x).fatal] :
            x \in {y \in inputs :
                      /\ (~ y.extract) => y.n_images = 0
                      /\ y.raises = RunOf(y).confined
                                      \cup (IF RunOf(y).fatal = "none" THEN {}
                                            ELSE {RunOf(y).fatal})}}

\* converter.py:286-306: one loop iteration that appends the page.  What
\* the page holds and which library calls raise are inputs; saved are the
\* images written: an image that is not saved raised or was skipped
\* (converter.py:233-238).
ProcessPage ==
    /\ mn_pc = "converting"
    /\ cp_handle = "open"
    /\ Len(cp_result) < cp_pages
    /\ \E run \in PageRuns :
         /\ run.extract = mn_args.images
         /\ run.fatal = "none"
         /\ \E saved \in SUBSET (1..run.n_images) :
              LET i      == Len(cp_result) + 1
                  images == SavedImages(stem(mn_args.pdf_path), i, 1, run.n_images, saved)
              IN  /\ ("image" \in run.raises) => saved # 1..run.n_images
                  /\ cp_result' = Append(cp_result, [page_number |-> i, images |-> images])
                  /\ fs_images' = fs_images \cup {images[k] : k \in 1..Len(images)}
         /\ cp_confined' = cp_confined \cup run.confined
    /\ cp_started' = cp_started + 1
    /\ UNCHANGED <<mn_pc, mn_args, mn_exit, mn_diag, mn_called, cp_pages, cp_handle,
                   cp_closes, cp_fatal, cp_outcome, sv_outcome, fs_markdown, ddVars,
                   tbVars, ecVars>>

\* converter.py:286-306, 285 and main.py:130-132: one loop iteration in
\* which a call outside every try raises, which is before the page's first
\* image is saved; the with block closes the document, the exception
\* leaves convert_pdf and main returns 1
ProcessPageRaises ==
    /\ mn_pc = "converting"
    /\ cp_handle = "open"
    /\ Len(cp_result) < cp_pages
    /\ \E run \in PageRuns :
         /\ run.extract = mn_args.images
         /\ run.fatal # "none"
         /\ cp_confined' = cp_confined \cup run.confined
         /\ cp_fatal' = run.fatal
    /\ cp_started' = cp_started + 1
    /\ cp_handle' = close_on_raise(cp_handle)
    /\ cp_closes' = IF cp_handle' = "closed" THEN cp_closes + 1 ELSE cp_closes
    /\ cp_outcome' = "raised"
    /\ mn_pc' = "exit"
    /\ mn_exit' = 1
    /\ mn_diag' = "conversion"
    /\ UNCHANGED <<mn_args, mn_called, cp_pages, cp_result, sv_outcome, fs_images,
                   fs_markdown, ddVars, tbVars, ecVars>>

\* converter.py:285, 308 and main.py:118-120: the loop is over, the with
\* block closes the document, convert_pdf returns and main calls save_result
ConvertReturn ==
    /\ mn_pc = "converting"
    /\ cp_handle = "open"
    /\ Len(cp_result) = cp_pages
    /\ cp_handle' = close_on_return(cp_handle)
    /\ cp_closes' = IF cp_handle' = "closed" THEN cp_closes + 1 ELSE cp_closes
    /\ cp_outcome' = "returned"
    /\ mn_called' = mn_called \cup {"save_result"}
    /\ mn_pc' = "saving"
    /\ UNCHANGED <<mn_args, mn_exit, mn_diag, cp_pages, cp_started, cp_result,
                   cp_confined, cp_fatal, sv_outcome, fs_images, fs_markdown, ddVars,
                   tbVars, ecVars>>

\* the Markdown files save_result writes before the write numbered
\* fail_at raises (0: none raises)
WrittenFiles(prefix, single, pages, fail_at) ==
    IF single
    THEN IF fail_at = 0 THEN {single_path(prefix)} ELSE {}
    ELSE {page_path(prefix, pages[k].page_number) :
              k \in {j \in 1..Len(pages) : fail_at = 0 \/ j < fail_at}}

\* converter.py:328-356 and main.py:127-128
SaveResult ==
    /\ mn_pc = "saving"
    /\ LET prefix == output_prefix(mn_args.name, stem(mn_args.pdf_path))
       IN  fs_markdown' = fs_markdown \cup WrittenFiles(prefix, mn_args.single, cp_result, 0)
    /\ sv_outcome' = "returned"
    /\ mn_pc' = "exit"
    /\ mn_exit' = 0
    /\ UNCHANGED <<mn_args, mn_diag, mn_called, cp_pages, cp_handle, cp_closes,
                   cp_started, cp_result, cp_confined, cp_fatal, cp_outcome,
                   fs_images, ddVars, tbVars, ecVars>>

\* converter.py:328-356 and main.py:130-132: output_dir.mkdir, or the open
\* or write of the file numbered fail_at, raises
SaveResultRaises ==
    /\ mn_pc = "saving"
    /\ \E fail_at \in 1..(IF mn_args.single \/ cp_result = <<>> THEN 1 ELSE Len(cp_result)) :
         LET prefix == output_prefix(mn_args.name, stem(mn_args.pdf_path))
         IN  fs_markdown' = fs_markdown
                              \cup WrittenFiles(prefix, mn_args.single, cp_result, fail_at)
    /\ sv_outcome' = "raised"
    /\ mn_pc' = "exit"
    /\ mn_exit' = 1
    /\ mn_diag' = "conversion"
    /\ UNCHANGED <<mn_args, mn_called, cp_pages, cp_handle, cp_closes, cp_started,
                   cp_result, cp_confined, cp_fatal, cp_outcome, fs_images, ddVars,
                   tbVars, ecVars>>

Next ==
    \/ MainNotFound
    \/ MainNotPdf
    \/ ConvertOpen
    \/ ConvertOpenRaises
    \/ ProcessPage
    \/ ProcessPageRaises
    \/ ConvertReturn
    \/ SaveResult
    \/ SaveResultRaises

Spec == Init /\ [][Next]_vars

\* main runs to its return: nothing in it waits
FairSpec == Spec /\ WF_vars(Next)

(***************************************************************************)
(* Claims about main, convert_pdf and save_result                          *)
(***************************************************************************)
\* the names whose extension is .pdf in some letter case
PdfNames == {"in.pdf", "in.PDF"}

\* C1: main returns 1 when the path does not exist, when it exists with an
\* extension other than .pdf (letter case aside), or when convert_pdf or
\* save_result raised, and 0 otherwise; existence is checked first, and in
\* the two usage errors neither function is called and nothing is written.
C1_ExitCodes ==
    /\ mn_pc # "exit" => mn_exit = -1
    /\ mn_pc = "exit" =>
          LET missing == ~ mn_args.exists
              wrong   == mn_args.exists /\ mn_args.pdf_path \notin PdfNames
              raised  == cp_outcome = "raised" \/ sv_outcome = "raised"
          IN  /\ mn_exit \in {0, 1}
              /\ mn_exit = 1 <=> (missing \/ wrong \/ raised)
              /\ missing => mn_diag = "not_found"
              /\ wrong => mn_diag = "not_pdf"
              /\ (missing \/ wrong) =>
                     /\ mn_called = {}
                     /\ fs_images = {}
                     /\ fs_markdown = {}

\* A missing path whose extension is wrong as well: the file-not-found exit.
C1_Witness ==
    /\ mn_pc = "exit"
    /\ ~ mn_args.exists
    /\ mn_args.pdf_path = "in.txt"
    /\ mn_exit = 1
    /\ mn_diag = "not_found"

\* An existing path with the extension in upper case, converted with exit
\* code 0.
UpperCaseAccepted ==
    /\ mn_pc = "exit"
    /\ mn_args.pdf_path = "in.PDF"
    /\ mn_exit = 0

\* C6: no failure met while a page or an image is processed leaves
\* convert_pdf, which returns one Page Result per page, numbered 1..P.
C6_EveryPageFailureConfined ==
    /\ cp_outcome = "raised" => cp_fatal = "open"
    /\ cp_outcome = "returned" =>
          /\ Len(cp_result) = cp_pages
          /\ \A i \in 1..Len(cp_result) : cp_result[i].page_number = i

\* What convert_pdf does confine: a failure of find_tables, outside_bbox,
\* extract_text_lines or of one image never leaves it; it raises exactly
\* when deduplicate_page, table.extract, page.images, the images
\* directory's mkdir or the opening of the document raises, and otherwise
\* returns one Page Result per page, numbered 1..P in document order.
ConfinedFailures ==
    /\ cp_fatal \notin {"find_tables", "outside_bbox", "text_lines", "image"}
    /\ cp_confined \subseteq {"find_tables", "outside_bbox", "text_lines", "image"}
    /\ cp_outcome = "raised" <=>
          cp_fatal \in {"open", "dedup", "table_extract", "page_images", "images_mkdir"}
    /\ (mn_pc \in {"saving", "exit"} /\ "convert_pdf" \in mn_called /\ cp_fatal = "none") =>
          cp_outcome = "returned"
    /\ cp_outcome = "returned" =>
          /\ Len(cp_result) = cp_pages
          /\ \A i \in 1..Len(cp_result) : cp_result[i].page_number = i

\* All four confined kinds of failure were met and every page was returned.
ConfinedFailuresMet ==
    /\ cp_outcome = "returned"
    /\ cp_confined = {"find_tables", "outside_bbox", "text_lines", "image"}
    /\ cp_pages = 2
    /\ Len(cp_result) = 2

\* the prefix C7 names: the -n value, or the source file's base name
ClaimedPrefix ==
    IF mn_args.name \in {<<>>, <<"">>} THEN stem(mn_args.pdf_path) ELSE mn_args.name[1]

\* the Markdown files are named by the prefix
MarkdownUsesPrefix ==
    mn_exit = 0 =>
        fs_markdown = IF mn_args.single
                      THEN {"out/" \o ClaimedPrefix \o ".md"}
                      ELSE {"out/" \o ClaimedPrefix \o "_page_" \o ToString(n) \o ".md" :
                                n \in 1..cp_pages}

\* C7: in a successful run every file uses the same prefix: {prefix}.md or
\* one {prefix}_page_{N}.md per page, and every saved image is
\* images/{prefix}_page{N}_img{idx}.png for the page N it was taken from.
C7_OnePrefix ==
    mn_exit = 0 =>
        /\ MarkdownUsesPrefix
        /\ \A n \in 1..Len(cp_result) :
               \A k \in 1..Len(cp_result[n].images) :
                   \E idx \in 1..MaxImages :
                       cp_result[n].images[k] =
                           "out/images/" \o ClaimedPrefix \o "_page" \o ToString(n)
                                         \o "_img" \o ToString(idx) \o ".png"
        /\ fs_images = UNION {{cp_result[n].images[k] : k \in 1..Len(cp_result[n].images)} :
                                 n \in 1..Len(cp_result)}

\* the images are named by the source file's base name whatever -n says
ImagesUseStem ==
    \A n \in 1..Len(cp_result) :
        \A k \in 1..Len(cp_result[n].images) :
            \E idx \in 1..MaxImages :
                cp_result[n].images[k] =
                    "out/images/" \o stem(mn_args.pdf_path) \o "_page" \o ToString(n)
                                  \o "_img" \o ToString(idx) \o ".png"

\* C10: once opened the document is closed in the end, on return and on an
\* exception alike, and exactly once; no page is processed after the close;
\* pages are processed one at a time in document order.
C10_HandleClosed ==
    /\ [](cp_closes <= 1)
    /\ []((cp_handle = "closed") <=> (cp_closes = 1))
    /\ [](mn_pc \in {"saving", "exit"} => cp_handle \in {"none", "closed"})
    /\ [](cp_handle = "none" => cp_started = 0)
    /\ (cp_handle = "open") ~> (cp_handle = "closed")
    /\ [][cp_handle = "closed" => (cp_started' = cp_started /\ cp_result' = cp_result
                                     /\ cp_handle' = "closed")]_vars
    /\ [][cp_started' # cp_started =>
              (/\ cp_handle = "open"
               /\ cp_started = Len(cp_result)
               /\ cp_started' = cp_started + 1
               /\ cp_started' <= cp_pages)]_vars
    /\ [][cp_result' # cp_result =>
              (/\ cp_handle = "open" /\ cp_handle' = "open"
               /\ Len(cp_result') = Len(cp_result) + 1
               /\ cp_result'[Len(cp_result')].page_number = cp_started'
               /\ SubSeq(cp_result', 1, Len(cp_result)) = cp_result)]_vars

\* The document closed by an exception met on its second page.
C10_Witness ==
    /\ cp_handle = "closed"
    /\ cp_closes = 1
    /\ cp_outcome = "raised"
    /\ cp_started = 2
    /\ Len(cp_result) = 1

====
